---- MODULE Spec2Model ----
(***************************************************************************)
(* RippleOscilloscope: the AudioAnalyzer class (web/js/main.js, and the    *)
(* standalone module variant of the same class) and the host program of    *)
(* main.js: bootstrap, microphone toggle, parameter setters, frame loop,   *)
(* uniform upload and the fragment shader's mode dispatch.                 *)
(*                                                                         *)
(* Numbers.  A JavaScript number in [0, 1.5] (normalised magnitudes,       *)
(* amplitudes, band values) is a fixed-point integer in units of 1/One,    *)
(* rounded down; NaN is the one non-number.  Decibel magnitudes are        *)
(* integers; -1000 stands for the -Infinity of a silent bin.               *)
(***************************************************************************)
EXTENDS Integers, Sequences, FiniteSets, TLC

\* ---------------------------------------------------------------- bounds
\* Longest frequency buffer of the analyzer taken on its own.
MaxLen == 3
\* Largest numBands argument of getFrequencyBands.
MaxBands == 4
\* Media sources createMediaStreamSource may create in one behaviour.
MaxSources == 2
\* frequencyBinCount of the host program's analyser (fftSize / 2 in the code).
BinCount == 12
\* Last reading (ms) of the host clock.
MaxNow == 2500
\* Largest argument the mode setter is called with.
MaxModeArg == 6

\* ---------------------------------------------------------------- numbers
\* 1.0 in fixed point: the unit is 1/60, the step of (data[i] + 90) / 60 on whole
\* decibels.
One == 60
\* The result of 0 / 0.
NaN == -999999

Min2(a, b) == IF a <= b THEN a ELSE b
Max2(a, b) == IF a >= b THEN a ELSE b

\* Math.min / Math.max of two numbers: NaN if either is.
MathMin(a, b) == IF a = NaN \/ b = NaN THEN NaN ELSE Min2(a, b)
MathMax(a, b) == IF a = NaN \/ b = NaN THEN NaN ELSE Max2(a, b)

\* x * y of two fixed-point numbers.
Mul(x, y) == IF x = NaN \/ y = NaN THEN NaN ELSE (x * y) \div One

\* sum / count: the only zero divisor the code meets divides a zero sum.
Div(sum, count) == IF sum = NaN \/ count = 0 THEN NaN ELSE sum \div count

\* Math.pow(avg, 0.8) for avg in [0, 1]: the largest r with (r/One)^5 <= (avg/One)^4.
Pow08(avg) ==
  IF avg = NaN THEN NaN
  ELSE CHOOSE r \in 0..One : r^5 <= avg^4 * One /\ (r + 1)^5 > avg^4 * One

RECURSIVE SumSeq(_)
SumSeq(s) == IF s = <<>> THEN 0 ELSE Head(s) + SumSeq(Tail(s))

\* 0 <= x <= 1 as JavaScript compares: false of NaN.
InUnit(x) == x # NaN /\ 0 <= x /\ x <= One

\* ---------------------------------------------------------------- inputs
\* Decibel magnitudes a bin can hold: silence, mid level, and a level above both
\* variants' ceilings.
DbValues == {-1000, -60, 20}
Frames(len) == [1..len -> DbValues]
BandArgs == 1..MaxBands
Variants == {"inline", "module"}
GpuOutcomes == {"none", "noAdapter", "noDevice", "ok"}
Null == 0

VARIABLES
  variant,        \* which AudioAnalyzer class: main.js's inline one, or the module
  audioContext,   \* this.audioContext is set
  analyser,       \* this.analyser is set
  microphone,     \* this.microphone: Null or a media source
  isActive,       \* this.isActive
  frequencyData,  \* this.frequencyData: Null or the dB buffer
  binCount,       \* analyser.frequencyBinCount
  connected,      \* media sources connected to the analyser node
  created,        \* media sources created so far
  pending,        \* toggles awaiting getUserMedia
  ret,            \* [op, arg, val]: the last analyzer call that returned, its numBands
                  \* argument (0 if it takes none) and the value it returned
  polls,          \* getFloatFrequencyData calls of the last getAmplitude/getFrequencyBands
  \* ---- the host program (main.js)
  gpu,            \* what the platform offers: "none" (no navigator.gpu), "noAdapter"
                  \* (requestAdapter() gives null), "noDevice" (requestDevice()
                  \* rejects), "ok"
  bootState,      \* init() not yet run ("loading"), ended in its error path
                  \* ("failed"), armed the start timer ("ready"); "started" once
                  \* the timer has fired
  errorShown,     \* showError() calls
  visualizer,     \* state.visualizer is set
  params,         \* state.visualizer.params
  currentMode,    \* state.currentMode
  canvas,         \* [width, height] of the canvas
  isRunning,      \* state.isRunning
  lastFrameTime,  \* state.lastFrameTime
  frameCount,     \* state.frameCount
  fps,            \* state.fps
  rafPending,     \* frame callbacks requestAnimationFrame holds
  now,            \* the host clock (ms)
  uniforms,       \* contents of the uniform buffer
  frameOps,       \* device and GPU calls of the last frame callback, in order
  drawn,          \* wave formula the last draw evaluates per pixel
  audioValue,     \* text of the audio status element
  amplitudeMeter, \* height (%) of the amplitude meter
  frequencyBars   \* heights (%) of the frequency bars

avars == <<variant, audioContext, analyser, microphone, isActive, frequencyData,
           binCount, connected, created, pending, ret, polls>>
pvars == <<gpu, bootState, errorShown, visualizer, params, currentMode, canvas, isRunning,
           lastFrameTime, frameCount, fps, rafPending, now, uniforms, frameOps, drawn,
           audioValue, amplitudeMeter, frequencyBars>>
vars == <<avars, pvars>>

\* ---------------------------------------------------------------- AudioAnalyzer
\* getFrequencyData(): the buffer after the call; frame is what the device writes.
getFrequencyData(frame) ==
  IF analyser /\ isActive THEN frame ELSE frequencyData

\* Whether getFrequencyData() invokes getFloatFrequencyData.
getFrequencyDataPolls == IF analyser /\ isActive THEN 1 ELSE 0

\* Math.max(0, Math.min(1, (d + 90) / 60))
NormAmplitudeInline(d) == MathMax(0, MathMin(One, ((d + 90) * One) \div 60))
\* NormBand without the Math.min(1, ...).
MutNormBandNoCeil(d) == MathMax(0, ((d + 100) * One) \div 100)
\* Math.max(0, Math.min(1, (d + 100) / 100))
NormBand(d) == MathMax(0, MathMin(One, ((d + 100) * One) \div 100))

\* getAmplitude() of main.js on the polled buffer.
AmplitudeInline(data) ==
  LET sum == SumSeq([i \in 1..Len(data) |-> NormAmplitudeInline(data[i])])
      avg == Div(sum, Len(data))
  IN Mul(Pow08(avg), (3 * One) \div 2)

\* getAmplitude() of the module variant on the polled buffer.
AmplitudeModule(data) ==
  LET sum == SumSeq([i \in 1..Len(data) |-> NormBand(data[i])])
  IN MathMin(One, Div(sum, Len(data)))

\* getAmplitude() without its isActive guard.
MutgetAmplitudeNoGuard(frame) ==
  [ret |-> IF variant = "inline" THEN AmplitudeInline(frame) ELSE AmplitudeModule(frame),
   data |-> frame, polls |-> 1]
\* getAmplitude(): [ret, data, polls].
getAmplitude(frame) ==
  IF ~isActive THEN [ret |-> 0, data |-> frequencyData, polls |-> 0]
  ELSE LET data == getFrequencyData(frame)
       IN [ret |-> IF variant = "inline" THEN AmplitudeInline(data)
                   ELSE AmplitudeModule(data),
           data |-> data, polls |-> getFrequencyDataPolls]

\* The window [start, end) of band i (from 0) over len bins in numBands bands.
samplesPerBand(len, numBands) == len \div numBands
BandStart(i, len, numBands) == i * samplesPerBand(len, numBands)
BandEnd(i, len, numBands) == Min2((i + 1) * samplesPerBand(len, numBands), len)
BandWindow(i, len, numBands) ==
  {j \in 0..(len - 1) : BandStart(i, len, numBands) <= j /\ j < BandEnd(i, len, numBands)}

\* bands.push(sum / (end - start)) for band i (from 0).
BandValue(data, i, numBands) ==
  LET start == BandStart(i, Len(data), numBands)
      end == BandEnd(i, Len(data), numBands)
      sum == SumSeq([k \in 1..(end - start) |-> NormBand(data[start + k])])
  IN Div(sum, end - start)

\* getFrequencyBands(numBands): [ret, data, polls].
getFrequencyBands(numBands, frame) ==
  IF ~isActive
  THEN [ret |-> [i \in 1..numBands |-> One \div 10], data |-> frequencyData, polls |-> 0]
  ELSE LET data == getFrequencyData(frame)
       IN [ret |-> [i \in 1..numBands |-> BandValue(data, i - 1, numBands)],
           data |-> data, polls |-> getFrequencyDataPolls]

\* init(): ok is whether the AudioContext can be constructed; the buffer is a
\* zero-filled Float32Array(frequencyBinCount).
init(ok) ==
  /\ audioContext' = (audioContext \/ ok)
  /\ analyser' = (analyser \/ ok)
  /\ frequencyData' = IF ok THEN [i \in 1..binCount |-> 0] ELSE frequencyData

\* disableMicrophone() without the disconnect().
MutdisableMicrophoneKeepsSource ==
  /\ microphone' = Null
  /\ isActive' = FALSE
  /\ UNCHANGED connected
\* disableMicrophone()
disableMicrophone ==
  /\ connected' = IF microphone # Null THEN connected \ {microphone} ELSE connected
  /\ microphone' = Null
  /\ isActive' = FALSE

\* toggle() up to its first suspension.  Active: disableMicrophone(), resolve false.
\* Inactive: enableMicrophone() runs init() if there is no context (initOk), and
\* either suspends in getUserMedia or, with no context, catches the TypeError and
\* resolves false.
toggle(initOk) ==
  IF isActive
  THEN /\ disableMicrophone
       /\ ret' = [op |-> "toggle", arg |-> 0, val |-> FALSE]
       /\ UNCHANGED <<audioContext, analyser, frequencyData, pending>>
  ELSE /\ created + pending < MaxSources
       /\ IF audioContext
          THEN UNCHANGED <<audioContext, analyser, frequencyData>>
          ELSE init(initOk)
       /\ IF audioContext \/ initOk
          THEN pending' = pending + 1 /\ UNCHANGED ret
          ELSE ret' = [op |-> "toggle", arg |-> 0, val |-> FALSE] /\ UNCHANGED pending
       /\ UNCHANGED <<microphone, isActive, connected>>

\* enableMicrophone() after getUserMedia resolved: create the source, connect it.
enableMicrophoneGranted ==
  /\ pending > 0
  /\ pending' = pending - 1
  /\ created' = created + 1
  /\ microphone' = created + 1
  /\ connected' = connected \cup {created + 1}
  /\ isActive' = TRUE
  /\ ret' = [op |-> "toggle", arg |-> 0, val |-> TRUE]
  /\ UNCHANGED <<audioContext, analyser, frequencyData>>

\* enableMicrophoneDenied with this.isActive = true assigned before the await.
MutenableMicrophoneDeniedActivates ==
  /\ pending > 0
  /\ pending' = pending - 1
  /\ isActive' = TRUE
  /\ ret' = [op |-> "toggle", arg |-> 0, val |-> FALSE]
  /\ UNCHANGED <<audioContext, analyser, frequencyData, microphone, connected, created>>
\* enableMicrophone() after getUserMedia rejected: the catch block.
enableMicrophoneDenied ==
  /\ pending > 0
  /\ pending' = pending - 1
  /\ ret' = [op |-> "toggle", arg |-> 0, val |-> FALSE]
  /\ UNCHANGED <<audioContext, analyser, frequencyData, microphone, isActive,
                 connected, created>>

\* ------------------------------------------------- the analyzer on its own
\* A client constructs the analyzer and calls its methods in any order, awaiting
\* each toggle() before it calls the next.
CallToggle ==
  /\ pending = 0
  /\ \E initOk \in BOOLEAN : toggle(initOk)
  /\ UNCHANGED <<variant, binCount, created, polls, pvars>>

GetUserMediaResolves ==
  /\ enableMicrophoneGranted
  /\ UNCHANGED <<variant, binCount, polls, pvars>>

GetUserMediaRejects ==
  /\ enableMicrophoneDenied
  /\ UNCHANGED <<variant, binCount, polls, pvars>>

CallGetAmplitude ==
  /\ \E frame \in Frames(binCount) :
       LET r == getAmplitude(frame)
       IN /\ ret' = [op |-> "getAmplitude", arg |-> 0, val |-> r.ret]
          /\ frequencyData' = r.data
          /\ polls' = r.polls
  /\ UNCHANGED <<variant, audioContext, analyser, microphone, isActive, binCount,
                 connected, created, pending, pvars>>

CallGetFrequencyBands ==
  /\ \E numBands \in BandArgs, frame \in Frames(binCount) :
       LET r == getFrequencyBands(numBands, frame)
       IN /\ ret' = [op |-> "getFrequencyBands", arg |-> numBands, val |-> r.ret]
          /\ frequencyData' = r.data
          /\ polls' = r.polls
  /\ UNCHANGED <<variant, audioContext, analyser, microphone, isActive, binCount,
                 connected, created, pending, pvars>>

\* ---------------------------------------------------------------- host program
\* The defaults of state.visualizer.params.
DefaultParams == [amplitude |-> One, frequency |-> 3, speed |-> 1, hue |-> 180, mode |-> 0]

\* x || 0
OrZero(x) == IF x = NaN THEN 0 ELSE x

\* The constants of the module-level state object, and the page before init().
InitProgram ==
  /\ gpu \in GpuOutcomes
  /\ bootState = "loading"
  /\ errorShown = 0
  /\ visualizer = FALSE
  /\ params = DefaultParams
  /\ currentMode = 0
  /\ canvas = [width |-> 0, height |-> 0]
  /\ isRunning = FALSE
  /\ lastFrameTime = 0
  /\ frameCount = 0
  /\ fps = 60
  /\ rafPending = 0
  /\ now = 0
  /\ uniforms = <<>>
  /\ frameOps = <<>>
  /\ drawn = "none"
  /\ audioValue = "OFF"
  /\ amplitudeMeter = 0
  /\ frequencyBars = <<>>

\* showError()
showError == errorShown' = errorShown + 1

\* init() of the page with the start timer armed after the catch block as well.
MutappInitArmsTimerAfterError(audioOk, size, sliders) ==
  /\ bootState = "loading"
  /\ IF gpu = "none"
     THEN /\ showError
          /\ bootState' = "failed"
          /\ UNCHANGED <<audioContext, analyser, frequencyData, canvas, visualizer,
                         params, uniforms>>
     ELSE /\ init(audioOk)
          /\ canvas' = size
          /\ IF gpu # "ok"
             THEN /\ showError
                  /\ bootState' = "ready"
                  /\ UNCHANGED <<visualizer, params, uniforms>>
             ELSE /\ visualizer' = TRUE
                  /\ params' = [sliders EXCEPT !.mode = DefaultParams.mode]
                  /\ uniforms' = [i \in 1..8 |-> 0]
                  /\ bootState' = "ready"
                  /\ UNCHANGED errorShown
  /\ UNCHANGED <<variant, microphone, isActive, binCount, connected, created, pending,
                 ret, polls>>
  /\ UNCHANGED <<gpu, currentMode, isRunning, lastFrameTime, frameCount, fps, rafPending,
                 now, frameOps, drawn, audioValue, amplitudeMeter, frequencyBars>>
\* init() of the page, run to its end: audioOk is whether the AudioContext can be
\* constructed, size the window's inner size, sliders the values the slider
\* elements hold when setupSlider() applies them.
appInit(audioOk, size, sliders) ==
  /\ bootState = "loading"
  /\ IF gpu = "none"
     THEN /\ showError
          /\ bootState' = "failed"
          /\ UNCHANGED <<audioContext, analyser, frequencyData, canvas, visualizer,
                         params, uniforms>>
     ELSE /\ init(audioOk)
          /\ canvas' = size
          /\ IF gpu # "ok"
             THEN /\ showError
                  /\ bootState' = "failed"
                  /\ UNCHANGED <<visualizer, params, uniforms>>
             ELSE /\ visualizer' = TRUE
                  /\ params' = [sliders EXCEPT !.mode = DefaultParams.mode]
                  /\ uniforms' = [i \in 1..8 |-> 0]
                  /\ bootState' = "ready"
                  /\ UNCHANGED errorShown
  /\ UNCHANGED <<variant, microphone, isActive, binCount, connected, created, pending,
                 ret, polls>>
  /\ UNCHANGED <<gpu, currentMode, isRunning, lastFrameTime, frameCount, fps, rafPending,
                 now, frameOps, drawn, audioValue, amplitudeMeter, frequencyBars>>

\* requestAnimationFrame(render) that schedules nothing.
MutrequestAnimationFrameDropped(held) == held
\* requestAnimationFrame(render): the callbacks the host holds after the call.
requestAnimationFrame(held) == held + 1

\* state.isRunning = false, written from outside main.js: the stop request that
\* render() tests for.  No code of main.js issues it.
stopRequest ==
  /\ isRunning
  /\ isRunning' = FALSE
  /\ UNCHANGED <<avars, gpu, bootState, errorShown, visualizer, params, currentMode, canvas,
                 lastFrameTime, frameCount, fps, rafPending, now, uniforms, frameOps,
                 drawn, audioValue, amplitudeMeter, frequencyBars>>

\* The setTimeout callback of init(): startRenderLoop().
startRenderLoop ==
  /\ bootState = "ready"
  /\ bootState' = "started"
  /\ isRunning' = TRUE
  /\ now + 500 <= MaxNow
  /\ now' = now + 500
  /\ lastFrameTime' = now + 500
  /\ rafPending' = requestAnimationFrame(rafPending)
  /\ UNCHANGED <<avars, gpu, errorShown, visualizer, params, currentMode, canvas, frameCount,
                 fps, uniforms, frameOps, drawn, audioValue, amplitudeMeter,
                 frequencyBars>>

\* User input reaches the page once setupEventListeners() has run.
Listening == bootState \in {"ready", "started"}

\* toggleAudio(): the click handler up to the first suspension of toggle().
toggleAudio ==
  /\ Listening
  /\ \E initOk \in BOOLEAN :
       /\ toggle(initOk)
       /\ audioValue' = IF isActive \/ ~(audioContext \/ initOk) THEN "OFF" ELSE audioValue
  /\ UNCHANGED <<variant, binCount, created, polls>>
  /\ UNCHANGED <<gpu, bootState, errorShown, visualizer, params, currentMode, canvas,
                 isRunning, lastFrameTime, frameCount, fps, rafPending, now, uniforms,
                 frameOps, drawn, amplitudeMeter, frequencyBars>>

\* toggleAudio() resumed with true.
toggleAudioGranted ==
  /\ enableMicrophoneGranted
  /\ audioValue' = "ON"
  /\ UNCHANGED <<variant, binCount, polls>>
  /\ UNCHANGED <<gpu, bootState, errorShown, visualizer, params, currentMode, canvas,
                 isRunning, lastFrameTime, frameCount, fps, rafPending, now, uniforms,
                 frameOps, drawn, amplitudeMeter, frequencyBars>>

\* toggleAudio() resumed with false.
toggleAudioDenied ==
  /\ enableMicrophoneDenied
  /\ audioValue' = "OFF"
  /\ UNCHANGED <<variant, binCount, polls>>
  /\ UNCHANGED <<gpu, bootState, errorShown, visualizer, params, currentMode, canvas,
                 isRunning, lastFrameTime, frameCount, fps, rafPending, now, uniforms,
                 frameOps, drawn, amplitudeMeter, frequencyBars>>

\* setSpeed() that assigns this.params.frequency.
MutsetSpeedWritesFrequency(val) == [params EXCEPT !.frequency = val]
\* The setters of state.visualizer: the params after the call.
setMode(mode) == [params EXCEPT !.mode = mode]
setAmplitude(val) == [params EXCEPT !.amplitude = val]
setFrequency(val) == [params EXCEPT !.frequency = val]
setSpeed(val) == [params EXCEPT !.speed = val]
setHue(val) == [params EXCEPT !.hue = val]

UnchangedBySetters ==
  UNCHANGED <<avars, gpu, bootState, errorShown, visualizer, canvas, isRunning, lastFrameTime,
              frameCount, fps, rafPending, now, uniforms, frameOps, drawn, audioValue,
              amplitudeMeter, frequencyBars>>

\* A mode button's click listener: the host's setMode(mode).
ModeClick(mode) ==
  /\ Listening
  /\ currentMode' = mode
  /\ params' = IF visualizer THEN setMode(mode) ELSE params
  /\ UnchangedBySetters

\* The sliders' input listeners.
AmplitudeInput(val) ==
  /\ Listening
  /\ params' = IF visualizer THEN setAmplitude(val) ELSE params
  /\ UNCHANGED currentMode /\ UnchangedBySetters
FrequencyInput(val) ==
  /\ Listening
  /\ params' = IF visualizer THEN setFrequency(val) ELSE params
  /\ UNCHANGED currentMode /\ UnchangedBySetters
SpeedInput(val) ==
  /\ Listening
  /\ params' = IF visualizer THEN setSpeed(val) ELSE params
  /\ UNCHANGED currentMode /\ UnchangedBySetters
HueInput(val) ==
  /\ Listening
  /\ params' = IF visualizer THEN setHue(val) ELSE params
  /\ UNCHANGED currentMode /\ UnchangedBySetters

\* resizeCanvas(), the window's resize listener.
resizeCanvas(size) ==
  /\ Listening
  /\ canvas' = size
  /\ UNCHANGED <<avars, gpu, bootState, errorShown, visualizer, params, currentMode, isRunning,
                 lastFrameTime, frameCount, fps, rafPending, now, uniforms, frameOps,
                 drawn, audioValue, amplitudeMeter, frequencyBars>>

\* ---------------------------------------------------------------- shader
\* u32(x) of a float: truncated, negative values clamp to 0.
U32(x) == IF x < 0 THEN 0 ELSE x

\* switch of fs_main in shaders/wave.wgsl.
fs_main_wgsl(mode) ==
  CASE mode = 0 -> "Sine"
    [] mode = 1 -> "Ripple"
    [] mode = 2 -> "Lissajous"
    [] mode = 3 -> "Plasma"
    [] mode = 4 -> "Surface"
    [] OTHER -> "Sine"

\* switch u32(uniforms.mode + 0.1) of fs_main in getInlineShader().
fs_main_inline(mode) ==
  LET m == U32(mode)
  IN CASE m = 0 -> "Sine"
       [] m = 1 -> "Ripple"
       [] m = 2 -> "Lissajous"
       [] m = 3 -> "Plasma"
       [] OTHER -> "Surface"

\* The fragment entry point of the module initWebGPUFallback() compiles:
\* shaderCode = getInlineShader().
fs_main(mode) == fs_main_inline(mode)

\* ---------------------------------------------------------------- frame loop
\* The getFloatFrequencyData calls of one analyzer call, as frame operations.
PollOps(n) == IF n = 1 THEN <<"poll">> ELSE <<>>

\* Math.max(10, value * 100) with value = bands[i] || 0.
BarHeight(value) == Max2(10, (OrZero(value) * 100) \div One)

\* state.visualizer.render() with the draw submitted before the upload.
MutGpuCallsDrawFirst == <<"draw(6)", "submit", "writeBuffer">>
\* The GPU calls of state.visualizer.render(), in order: device.queue.writeBuffer of
\* the uniforms, renderPass.draw(6) in the one render pass, device.queue.submit.
GpuCalls == <<"writeBuffer", "draw(6)", "submit">>

\* if (!state.isRunning) return; with the test never taken.
MutLoopStoppedIgnored == FALSE
\* if (!state.isRunning) return;
LoopStopped == ~isRunning

\* The snapshot test with > in place of >=.
MutFpsWindowElapsedStrict(timestamp) == timestamp - lastFrameTime > 1000
\* timestamp - state.lastFrameTime >= 1000
FpsWindowElapsed(timestamp) == timestamp - lastFrameTime >= 1000

\* render(timestamp), the frame callback: timestamp = now + dt; f1, f2, f3 are what
\* the device writes at the first, second and third poll of this frame.
render(dt, f1, f2, f3) ==
  /\ rafPending > 0
  /\ now + dt <= MaxNow
  /\ now' = now + dt
  /\ UNCHANGED <<variant, audioContext, analyser, microphone, isActive, binCount,
                 connected, created, pending>>
  /\ UNCHANGED <<gpu, bootState, errorShown, visualizer, params, currentMode, canvas,
                 isRunning, audioValue>>
  /\ IF LoopStopped
     THEN /\ rafPending' = rafPending - 1
          /\ frameOps' = <<>>
          /\ UNCHANGED <<frequencyData, ret, polls, lastFrameTime, frameCount, fps,
                         uniforms, drawn, amplitudeMeter, frequencyBars>>
     ELSE LET timestamp == now + dt
              snapshot == FpsWindowElapsed(timestamp)
              \* state.visualizer.render(time)
              a1 == getAmplitude(f1)
              audioAmp == OrZero(a1.ret)
              effectiveAmp ==
                Mul(params.amplitude, (One \div 2) + Mul(audioAmp, (3 * One) \div 2))
              payload == <<(timestamp * One) \div 1000, effectiveAmp, params.frequency,
                           params.speed, canvas.width, canvas.height, params.hue,
                           params.mode>>
              \* updateUI()
              ui == isActive
              a2 == getAmplitude(f2)
              b3 == getFrequencyBands(12, f3)
          IN /\ frameCount' = IF snapshot THEN 0 ELSE frameCount + 1
             /\ fps' = IF snapshot THEN frameCount + 1 ELSE fps
             /\ lastFrameTime' = IF snapshot THEN timestamp ELSE lastFrameTime
             /\ uniforms' = IF visualizer THEN payload ELSE uniforms
             /\ drawn' = IF visualizer THEN fs_main(params.mode) ELSE drawn
             /\ frameOps' =
                  (IF visualizer
                   THEN PollOps(a1.polls) \o GpuCalls
                   ELSE <<>>)
                  \o (IF ui THEN PollOps(a2.polls) \o PollOps(b3.polls) ELSE <<>>)
             /\ frequencyData' = IF ui THEN b3.data ELSE a1.data
             /\ polls' = IF ui THEN b3.polls ELSE a1.polls
             /\ ret' = IF ui THEN [op |-> "getFrequencyBands", arg |-> 12, val |-> b3.ret]
                      ELSE [op |-> "getAmplitude", arg |-> 0, val |-> a1.ret]
             /\ amplitudeMeter' =
                  IF ui THEN (IF a2.ret = NaN THEN NaN ELSE (a2.ret * 100) \div One)
                  ELSE amplitudeMeter
             /\ frequencyBars' =
                  IF ui THEN [i \in 1..12 |-> BarHeight(b3.ret[i])] ELSE frequencyBars
             /\ rafPending' = requestAnimationFrame(rafPending - 1)

\* ---------------------------------------------------------------- specifications
\* The analyzer on its own, for both variants of the class and every buffer length.
NextAnalyzer ==
  \/ CallToggle
  \/ GetUserMediaResolves
  \/ GetUserMediaRejects
  \/ CallGetAmplitude
  \/ CallGetFrequencyBands

\* The analyzer as its constructor leaves it, of either variant and any buffer
\* length (the page's own analyser has fftSize / 2 bins); the page is not booted.
InitAnalyzer ==
  /\ variant \in Variants
  /\ binCount \in 0..MaxLen
  /\ audioContext = FALSE /\ analyser = FALSE
  /\ microphone = Null /\ isActive = FALSE
  /\ frequencyData = Null
  /\ connected = {} /\ created = 0 /\ pending = 0
  /\ ret = [op |-> "none", arg |-> 0, val |-> 0]
  /\ polls = 0
  /\ InitProgram
  /\ gpu = "ok"

SpecAnalyzer == InitAnalyzer /\ [][NextAnalyzer]_vars

\* The page of main.js: its own AudioAnalyzer class, fftSize / 2 bins.
Init ==
  /\ variant = "inline"
  /\ binCount = BinCount
  /\ audioContext = FALSE /\ analyser = FALSE
  /\ microphone = Null /\ isActive = FALSE
  /\ frequencyData = Null
  /\ connected = {} /\ created = 0 /\ pending = 0
  /\ ret = [op |-> "none", arg |-> 0, val |-> 0]
  /\ polls = 0
  /\ InitProgram

WindowSize == [width |-> 800, height |-> 600]
\* What the device writes in the page's runs: every bin silent, or every bin at -30 dB.
LoopFrames == {[i \in 1..BinCount |-> d] : d \in {-1000, -30}}

\* Boot, microphone, the amplitude slider and the frame loop; the other controls
\* hold the defaults and stay untouched.
Next ==
  \/ \E audioOk \in BOOLEAN : appInit(audioOk, WindowSize, DefaultParams)
  \/ startRenderLoop
  \/ toggleAudio
  \/ toggleAudioGranted
  \/ toggleAudioDenied
  \/ \E val \in {0, One, 2 * One} : AmplitudeInput(val)
  \/ \E f1 \in LoopFrames, f2 \in LoopFrames, f3 \in LoopFrames : render(1000, f1, f2, f3)

Spec == Init /\ [][Next]_vars

\* Boot, controls and frame loop with the microphone left alone.
ModeArgs == 0..MaxModeArg
AmplitudeArgs == {One, 5 * One}
FrequencyArgs == {3, 50}
SpeedArgs == {1, 9}
HueArgs == {180, 400}
WindowSizes == {WindowSize, [width |-> 1024, height |-> 768]}
SliderValues ==
  [amplitude : AmplitudeArgs, frequency : FrequencyArgs, speed : SpeedArgs,
   hue : HueArgs, mode : {0}]
SilentFrame == [i \in 1..BinCount |-> -1000]

NextParams ==
  \/ \E audioOk \in BOOLEAN, size \in WindowSizes, sliders \in SliderValues :
       appInit(audioOk, size, sliders)
  \/ startRenderLoop
  \/ \E mode \in ModeArgs : ModeClick(mode)
  \/ \E val \in AmplitudeArgs : AmplitudeInput(val)
  \/ \E val \in FrequencyArgs : FrequencyInput(val)
  \/ \E val \in SpeedArgs : SpeedInput(val)
  \/ \E val \in HueArgs : HueInput(val)
  \/ \E size \in WindowSizes : resizeCanvas(size)
  \/ render(1000, SilentFrame, SilentFrame, SilentFrame)

SpecParams == Init /\ [][NextParams]_vars

\* Boot, microphone and the frame loop on a clock of uneven frame intervals, with
\* a stop request; the controls stay untouched.
FrameDts == {250, 1000}
LoudFrame == [i \in 1..BinCount |-> -30]

NextLoop ==
  \/ \E audioOk \in BOOLEAN : appInit(audioOk, WindowSize, DefaultParams)
  \/ startRenderLoop
  \/ stopRequest
  \/ toggleAudio
  \/ toggleAudioGranted
  \/ toggleAudioDenied
  \/ \E dt \in FrameDts : render(dt, LoudFrame, LoudFrame, LoudFrame)

SpecLoop == Init /\ [][NextLoop]_vars

\* ---------------------------------------------------------------- claims
\* The last call that returned is getAmplitude / getFrequencyBands made while the
\* capture was active: isActive changes only in steps that set ret to a toggle's.
ActiveCall(op) == ret.op = op /\ isActive

\* C1: for every non-empty spectral frame polled while the capture is active,
\* getAmplitude() returns a value in [0, 1].
C1_AmplitudeInUnit ==
  (ActiveCall("getAmplitude") /\ binCount >= 1) => InUnit(ret.val)

\* C2: for every frame of length L >= 1 polled while the capture is active and
\* every band count n with 1 <= n <= L, getFrequencyBands(n) returns exactly n
\* values, each in [0, 1].
C2_BandsInUnit ==
  (ActiveCall("getFrequencyBands") /\ 1 <= ret.arg /\ ret.arg <= binCount)
    => /\ Len(ret.val) = ret.arg
       /\ \A i \in 1..Len(ret.val) : InUnit(ret.val[i])

\* C2 happens: two bands over three bins, one silent and one at full scale.
C2_Witness ==
  /\ ActiveCall("getFrequencyBands")
  /\ polls = 1
  /\ binCount = 3
  /\ ret.arg = 2
  /\ ret.val = <<0, One>>

\* C3: for every frame length L and band count n with 1 <= n <= L, the n windows
\* [start, end) that getFrequencyBands(n) averages cover every bin 0..L-1 exactly
\* once: no gaps, no overlaps.
C3_WindowsPartition ==
  (ActiveCall("getFrequencyBands") /\ 1 <= ret.arg /\ ret.arg <= binCount)
    => \A j \in 0..(binCount - 1) :
         Cardinality({i \in 0..(ret.arg - 1) : j \in BandWindow(i, binCount, ret.arg)}) = 1

\* C4: in every reachable state where the capture is inactive, getAmplitude()
\* returns 0 and getFrequencyBands(n) returns n copies of the idle constant 0.1,
\* whatever the buffer holds, without polling the device and leaving the buffer
\* as it is; and so did the last such call made.
C4_InactiveIdle ==
  ~isActive =>
    /\ \A frame \in Frames(binCount) :
         /\ getAmplitude(frame) = [ret |-> 0, data |-> frequencyData, polls |-> 0]
         /\ \A n \in BandArgs :
              getFrequencyBands(n, frame) =
                [ret |-> [i \in 1..n |-> One \div 10], data |-> frequencyData, polls |-> 0]
    /\ ret.op = "getAmplitude" => (ret.val = 0 /\ polls = 0)
    /\ ret.op = "getFrequencyBands" =>
         (ret.val = [i \in 1..ret.arg |-> One \div 10] /\ polls = 0)

\* C4 happens: inactive after a disable, the buffer still holding a loud frame,
\* and a getFrequencyBands(3) call has returned.
C4_Witness ==
  /\ ~isActive
  /\ created = 1
  /\ microphone = Null
  /\ binCount = 2
  /\ frequencyData = <<20, 20>>
  /\ ret.op = "getFrequencyBands"
  /\ ret.arg = 3
  /\ ret.val = <<One \div 10, One \div 10, One \div 10>>

\* C6: toggling twice from the inactive state with permission granted, nothing
\* else in flight: the first toggle's grant makes the analyzer active on the source
\* it creates and connects, and the second toggle leaves it inactive, with no
\* microphone reference and that source disconnected from the analyser node.
C6_ToggleTwice ==
  [][ /\ (toggleAudioGranted /\ ~isActive /\ pending = 1)
         => (isActive' /\ microphone' = created' /\ microphone' \in connected'
             /\ pending' = 0)
      /\ (toggleAudio /\ isActive /\ pending = 0 /\ microphone = created)
         => (~isActive' /\ microphone' = Null /\ created \notin connected'
             /\ pending' = 0 /\ ret'.val = FALSE /\ audioValue' = "OFF") ]_vars

\* C6 happens: one source was ever created, and the analyzer is inactive again.
C6_Witness ==
  /\ created = 1
  /\ ~isActive
  /\ microphone = Null
  /\ connected = {}
  /\ pending = 0
  /\ ret = [op |-> "toggle", arg |-> 0, val |-> FALSE]
  /\ audioValue = "OFF"

\* A step in which the frame callback runs its body (the loop is running).
FrameStep == isRunning /\ rafPending > 0 /\ now' > now

\* C5: in every frame, for a base amplitude A >= 0, the effective amplitude the
\* render step writes into the uniform payload lies in [0.5 * A, 2.0 * A].
C5_EffectiveAmplitudeBounds ==
  [][ (FrameStep /\ params.amplitude >= 0)
        => /\ Mul(params.amplitude, One \div 2) <= uniforms'[2]
           /\ uniforms'[2] <= 2 * params.amplitude ]_vars

\* C7: the capture device is polled at most once per render frame.
C7_OnePollPerFrame ==
  Cardinality({i \in 1..Len(frameOps) : frameOps[i] = "poll"}) <= 1

\* C8: after any sequence of setter calls, params.mode is one of the enum values
\* 0..4 (the closed-enum part of the clamping the claim states).
C8_ModeClamped == params.mode \in 0..4

\* C9: the shader the host draws with selects Sine for mode 0, Ripple for 1,
\* Lissajous for 2, Plasma for 3, Surface for 4, and Sine for every other mode.
C9_ModeDispatch ==
  drawn # "none" =>
    drawn = (CASE uniforms[8] = 0 -> "Sine"
               [] uniforms[8] = 1 -> "Ripple"
               [] uniforms[8] = 2 -> "Lissajous"
               [] uniforms[8] = 3 -> "Plasma"
               [] uniforms[8] = 4 -> "Surface"
               [] OTHER -> "Sine")

\* C10: if a fatal startup condition occurs (no WebGPU, no adapter, no device),
\* then once init() has run the error state has been shown exactly once, and the
\* frame loop never starts: no start timer is armed, isRunning is false and no
\* frame callback is scheduled, in that and every later state.
C10_FatalStopsLoop ==
  (gpu # "ok" /\ bootState # "loading")
    => /\ errorShown = 1
       /\ bootState = "failed"
       /\ ~isRunning
       /\ rafPending = 0
       /\ frameOps = <<>>

\* C10 happens: the adapter request failed after the audio engine was set up.
C10_Witness ==
  /\ gpu = "noAdapter"
  /\ bootState = "failed"
  /\ errorShown = 1
  /\ audioContext
  /\ ~visualizer

\* Where op occurs in a frame's operations.
Positions(ops, op) == {i \in 1..Len(ops) : ops[i] = op}

\* C11: a rejected permission request is not fatal.  The toggle resolves to false
\* and the rejection changes nothing of the analyzer, so an inactive analyzer with
\* no source connected stays so; the frame loop is left running with its callback
\* pending, and a frame run while inactive re-arms and draws with the idle feature
\* vector (audio amplitude 0, no poll); a later toggle of the inactive analyzer
\* issues a new permission request, whose grant activates it.
C11_DenialNonFatal ==
  [][ /\ toggleAudioDenied
         => /\ ret'.op = "toggle" /\ ret'.val = FALSE
            /\ audioValue' = "OFF"
            /\ UNCHANGED <<isActive, microphone, connected, isRunning, rafPending,
                           bootState, errorShown>>
            /\ (~isActive /\ connected = {}) => (~isActive' /\ connected' = {})
      /\ (FrameStep /\ ~isActive)
         => /\ isRunning' /\ rafPending' = rafPending
            /\ uniforms'[2] = Mul(params.amplitude, One \div 2)
            /\ frameOps' = <<"writeBuffer", "draw(6)", "submit">>
      /\ (toggleAudio /\ ~isActive /\ audioContext)
         => (pending' = pending + 1 /\ ~isActive')
      /\ (toggleAudioGranted /\ ~isActive)
         => (isActive' /\ ret'.val = TRUE /\ microphone' \in connected') ]_vars

\* C11 happens: the only permission request made so far was rejected (no source
\* was ever created, yet a toggle with an audio context resolved false), and the
\* frame loop is running with its callback pending.
C11_Witness ==
  /\ ret = [op |-> "toggle", arg |-> 0, val |-> FALSE]
  /\ audioContext
  /\ created = 0 /\ pending = 0
  /\ ~isActive /\ connected = {}
  /\ isRunning /\ rafPending = 1
  /\ uniforms # [i \in 1..8 |-> 0]

\* C12: for every frame of length L >= 1 polled while the capture is active and
\* every band count n >= 1, n > L included, each window getFrequencyBands(n)
\* averages holds at least one bin (end - start >= 1), and no band value is the
\* result of a division by zero.
C12_NoEmptyWindow ==
  (ActiveCall("getFrequencyBands") /\ binCount >= 1 /\ ret.arg >= 1)
    => \A i \in 0..(ret.arg - 1) :
         /\ BandEnd(i, binCount, ret.arg) - BandStart(i, binCount, ret.arg) >= 1
         /\ ret.val[i + 1] # NaN

\* C13: with the capture active and a frequency buffer of length 0, getAmplitude()
\* returns 0 and getFrequencyBands(n) returns n copies of the idle value 0.1.
C13_EmptyFrameIdle ==
  (isActive /\ binCount = 0)
    => /\ ret.op = "getAmplitude" => ret.val = 0
       /\ ret.op = "getFrequencyBands" => ret.val = [i \in 1..ret.arg |-> One \div 10]

\* C14: under any interleaving of toggles, the boolean a toggle resolves to equals
\* isActive at the moment it resolves, and once no toggle is in flight the ON/OFF
\* status the page derives from it agrees with the analyzer.
C14_ToggleResolvesToIsActive ==
  /\ ret.op = "toggle" => ret.val = isActive
  /\ (Listening /\ pending = 0) => ((audioValue = "ON") <=> isActive)

\* C15: every executed frame callback counts one frame: if its timestamp is 1000 ms
\* or more past the last snapshot time it publishes fps := the counter with this
\* frame counted, resets the counter to 0 and moves the snapshot time to the
\* timestamp; otherwise the counter is one higher and fps and the snapshot time
\* are unchanged.  Timestamps never decrease, so after every tick the timestamp
\* is less than 1000 ms past the snapshot time.
C15_FpsAccounting ==
  [][ FrameStep
        => /\ IF now' - lastFrameTime >= 1000
              THEN /\ fps' = frameCount + 1
                   /\ frameCount' = 0
                   /\ lastFrameTime' = now'
              ELSE /\ frameCount' = frameCount + 1
                   /\ UNCHANGED <<fps, lastFrameTime>>
           /\ now' - lastFrameTime' < 1000 ]_vars

\* C15 happens: four frames 250 ms apart were counted and the fourth, exactly
\* 1000 ms past the start, published fps = 4 and reset the window.
C15_Witness ==
  /\ bootState = "started"
  /\ now = 1500
  /\ lastFrameTime = 1500
  /\ fps = 4
  /\ frameCount = 0

\* C16: with no stop request, the scheduler is running (isRunning) exactly when one
\* frame callback is pending with the host and idle exactly when none is: never
\* more than one callback is pending, none before the start, and from the start
\* on every state has one pending, each tick having re-armed exactly one.
C16_RunningIffPending ==
  /\ rafPending \in {0, 1}
  /\ isRunning <=> rafPending = 1
  /\ bootState = "started" <=> isRunning

\* C16 happens: the loop was started and two ticks have run and re-armed.
C16_Witness ==
  /\ bootState = "started"
  /\ isRunning
  /\ rafPending = 1
  /\ now = 2500
  /\ frameOps # <<>>

\* C17: once isRunning is false after a stop request, the frame callback that was
\* pending performs no poll, no uniform upload and no draw and schedules no other
\* callback, and isRunning stays false: no step from then on submits a draw.
C17_StopStopsRearming ==
  [][ (bootState = "started" /\ ~isRunning)
        => /\ ~isRunning'
           /\ UNCHANGED <<uniforms, drawn, polls, frameCount, fps, lastFrameTime>>
           /\ IF now' > now
              THEN rafPending = 1 /\ rafPending' = 0 /\ frameOps' = <<>>
              ELSE UNCHANGED <<rafPending, frameOps>> ]_vars

\* C17 happens: frames were drawn with the microphone on, the loop was stopped,
\* and the callback that was pending has run and left nothing scheduled.
C17_Witness ==
  /\ bootState = "started"
  /\ ~isRunning
  /\ isActive
  /\ rafPending = 0
  /\ frameOps = <<>>
  /\ uniforms # [i \in 1..8 |-> 0]

\* C18: every executed frame writes exactly one uniform payload of 8 fields, in the
\* order time, effective amplitude, frequency, speed, resolution.x, resolution.y,
\* hue, mode, and then submits exactly one draw of 6 vertices: the write precedes
\* the draw, the draw its submission, and no step other than a frame draws.
C18_OneUploadThenOneDraw ==
  [][ /\ FrameStep
         => /\ Len(uniforms') = 8
            /\ uniforms' = <<(now' * One) \div 1000,
                             Mul(params.amplitude, One \div 2) + Mul(params.amplitude,
                               Mul(OrZero(ret'.val), (3 * One) \div 2)),
                             params.frequency, params.speed, canvas.width,
                             canvas.height, params.hue, params.mode>>
            /\ \E w, d, b \in 1..Len(frameOps') :
                 /\ Positions(frameOps', "writeBuffer") = {w}
                 /\ Positions(frameOps', "draw(6)") = {d}
                 /\ Positions(frameOps', "submit") = {b}
                 /\ w < d /\ d < b
            /\ \A i \in 1..Len(frameOps') :
                 frameOps'[i] \in {"poll", "writeBuffer", "draw(6)", "submit"}
      /\ ~FrameStep => UNCHANGED frameOps ]_vars

\* C18 happens: the first frame, 1.5 s on the clock, uploaded eight distinct
\* values in the payload's order and drew once.
C18_Witness ==
  /\ uniforms = <<(1500 * One) \div 1000, (5 * One) \div 2, 50, 9, 1024, 768, 400, 5>>
  /\ frameOps = <<"writeBuffer", "draw(6)", "submit">>
  /\ now = 1500

\* C19: the render parameters change only in setter calls (those setupSlider()
\* makes at start-up included), each setter storing its argument in its own
\* parameter and leaving the other four; a frame leaves all five unchanged and
\* uploads the frequency, speed, hue and mode they hold, which are therefore the
\* arguments of the latest setter calls.
C19_ParamsFollowSetters ==
  [][ /\ FrameStep
         => /\ UNCHANGED params
            /\ uniforms'[3] = params.frequency /\ uniforms'[4] = params.speed
            /\ uniforms'[7] = params.hue /\ uniforms'[8] = params.mode
      /\ \A mode \in ModeArgs : ModeClick(mode) => params' = [params EXCEPT !.mode = mode]
      /\ \A val \in AmplitudeArgs :
           AmplitudeInput(val) => params' = [params EXCEPT !.amplitude = val]
      /\ \A val \in FrequencyArgs :
           FrequencyInput(val) => params' = [params EXCEPT !.frequency = val]
      /\ \A val \in SpeedArgs : SpeedInput(val) => params' = [params EXCEPT !.speed = val]
      /\ \A val \in HueArgs : HueInput(val) => params' = [params EXCEPT !.hue = val]
      /\ \A sliders \in SliderValues :
           (bootState = "loading" /\ bootState' = "ready" /\ params' = sliders)
             => sliders.mode = DefaultParams.mode
      /\ params' # params
         => \/ bootState = "loading" /\ bootState' = "ready" /\ params' \in SliderValues
            \/ \E mode \in ModeArgs : ModeClick(mode)
            \/ \E val \in AmplitudeArgs : AmplitudeInput(val)
            \/ \E val \in FrequencyArgs : FrequencyInput(val)
            \/ \E val \in SpeedArgs : SpeedInput(val)
            \/ \E val \in HueArgs : HueInput(val) ]_vars

\* C19 happens: the second frame uploaded the values set after the first, and a
\* hue set since then waits for the next upload.
C19_Witness ==
  /\ now = 2500
  /\ uniforms[3] = 50 /\ uniforms[4] = 9 /\ uniforms[7] = 180 /\ uniforms[8] = 4
  /\ params = [amplitude |-> One, frequency |-> 50, speed |-> 9, hue |-> 400, mode |-> 4]

\* C20: under any interleaving of toggles and permission-request completions,
\* every media source connected to the analyser node is the one this.microphone
\* references: at most one source is connected, and none while the analyzer is
\* inactive with no toggle in flight.
C20_ConnectedIsMicrophone ==
  /\ connected \subseteq {microphone}
  /\ Cardinality(connected) <= 1
  /\ (~isActive /\ pending = 0) => connected = {}
====
